---- MODULE Spec2Model ----
(***************************************************************************)
(* Trading dashboard: candle handling and technical indicators.            *)
(*                                                                         *)
(* The repository holds several variants of a browser dashboard.  Each     *)
(* variant receives candles (a whole history, a single bar, or raw ticks)  *)
(* and hands them to a chart series; two ChartComponent variants also      *)
(* compute SMA(20) and RSI(14) in a React effect, and                      *)
(* ChartIndicatorManager.IndicatorCalculator has calculateEMA and          *)
(* calculateRSI.                                                           *)
(*                                                                         *)
(* JavaScript numbers are modelled as exact rationals <<n, d>> with d > 0  *)
(* in lowest terms, and NaN as <<0, 0>>.  Text is a sequence of one-       *)
(* character strings.                                                      *)
(***************************************************************************)
EXTENDS Integers, Sequences, FiniteSets, TLC

----------------------------------------------------------------------------
(* Bounds of the model *)

\* ticks carry epochs 0, 30, ..., 30 * MaxTick
MaxTick == 4
\* candle times of the single-bar and short-history events are 0..MaxTime
MaxTime == 2
\* the longest history list of the store events
MaxHist == 2
\* the longest history of the ChartComponent events
MaxLen == 20
\* calculateEMA / calculateRSI inputs have at most MaxCalcLen candles
MaxCalcLen == 4
\* the SMA blocks run on their own get at most MaxSmaLen candles
MaxSmaLen == 23
\* calculateEMA / calculateRSI periods are 1..MaxPeriod
MaxPeriod == 3
\* the RSI blocks run on their own get at most MaxRsiLen candles
MaxRsiLen == 17
\* at most MaxPlaced valid trades are placed
MaxPlaced == 52
\* the server uses the trade ids 1..MaxId
MaxId == 3
\* at most MaxOpen positions are open at once
MaxOpen == 3
\* at most MaxClosed trades are closed between two resets
MaxClosed == 2
\* the clock of the auto-scroll runs for MaxClock seconds
MaxClock == 4

----------------------------------------------------------------------------
(* JavaScript numbers *)

NaN == <<0, 0>>

IsNaN(x) == x[2] = 0

Abs(n) == IF n < 0 THEN -n ELSE n

RECURSIVE Gcd(_, _)
Gcd(a, b) == IF b = 0 THEN a ELSE Gcd(b, a % b)

\* the rational n/d (d # 0) in lowest terms with a positive denominator
Norm(n, d) ==
    LET g == Gcd(Abs(n), Abs(d))
        s == IF d < 0 THEN -1 ELSE 1
    IN  <<s * (n \div g), s * (d \div g)>>

Num(n) == <<n, 1>>

NumAdd(x, y) ==
    IF IsNaN(x) \/ IsNaN(y) THEN NaN
    ELSE LET g == Gcd(x[2], y[2])
         IN  Norm(x[1] * (y[2] \div g) + y[1] * (x[2] \div g), (x[2] \div g) * y[2])

NumNeg(x) == IF IsNaN(x) THEN NaN ELSE <<-x[1], x[2]>>

NumSub(x, y) == NumAdd(x, NumNeg(y))

NumMul(x, y) ==
    IF IsNaN(x) \/ IsNaN(y) THEN NaN
    ELSE LET g1 == Gcd(Abs(x[1]), y[2])
             g2 == Gcd(Abs(y[1]), x[2])
         IN  Norm((x[1] \div g1) * (y[1] \div g2), (x[2] \div g2) * (y[2] \div g1))

\* x / y; 0/0 is NaN.  A non-zero number is never divided by zero in the
\* modelled code (every divisor is a positive period or guarded by === 0).
NumDiv(x, y) ==
    IF IsNaN(x) \/ IsNaN(y) \/ y[1] = 0 THEN NaN
    ELSE NumMul(x, Norm(y[2], y[1]))

\* comparisons are false as soon as one side is NaN
NumLt(x, y) == ~IsNaN(x) /\ ~IsNaN(y) /\ x[1] * y[2] < y[1] * x[2]

NumGt(x, y) == NumLt(y, x)

NumGe(x, y) == ~IsNaN(x) /\ ~IsNaN(y) /\ x[1] * y[2] >= y[1] * x[2]

\* x === y
NumEq(x, y) == ~IsNaN(x) /\ ~IsNaN(y) /\ x = y

\* Math.max / Math.min: NaN if either argument is NaN
MathMax(x, y) == IF IsNaN(x) \/ IsNaN(y) THEN NaN ELSE IF NumLt(x, y) THEN y ELSE x

MathMin(x, y) == IF IsNaN(x) \/ IsNaN(y) THEN NaN ELSE IF NumLt(y, x) THEN y ELSE x

MathAbs(x) == IF IsNaN(x) THEN NaN ELSE <<Abs(x[1]), x[2]>>

----------------------------------------------------------------------------
(* Text and parseFloat *)

DigitChars == <<"0", "1", "2", "3", "4", "5", "6", "7", "8", "9">>

IsDigit(ch) == \E k \in 1..10 : DigitChars[k] = ch

DigitVal(ch) == (CHOOSE k \in 1..10 : DigitChars[k] = ch) - 1

\* String(n) for a natural number n
RECURSIVE ToText(_)
ToText(n) ==
    IF n < 10 THEN <<DigitChars[n + 1]>>
    ELSE ToText(n \div 10) \o <<DigitChars[(n % 10) + 1]>>

\* the value of the longest prefix of digits of s read from position i with
\* acc the value read so far
RECURSIVE ParseDigits(_, _, _)
ParseDigits(s, i, acc) ==
    IF i > Len(s) \/ ~IsDigit(s[i]) THEN acc
    ELSE ParseDigits(s, i + 1, 10 * acc + DigitVal(s[i]))

\* parseFloat(s): the number the leading digits of s spell, NaN if s does
\* not start with a digit
ParseFloat(s) ==
    IF Len(s) = 0 \/ ~IsDigit(s[1]) THEN NaN
    ELSE Num(ParseDigits(s, 1, 0))

----------------------------------------------------------------------------
(* Candles *)

\* a candle as the chart holds it: an integer time and four numbers
Candle(t, o, h, l, c) == [time |-> t, open |-> o, high |-> h, low |-> l, close |-> c]

Last(s) == s[Len(s)]

Front(s) == SubSeq(s, 1, Len(s) - 1)

StrictlyAscending(s) == \A i \in 1..(Len(s) - 1) : s[i].time < s[i + 1].time

IsMalformed(c) == IsNaN(c.open) \/ IsNaN(c.high) \/ IsNaN(c.low) \/ IsNaN(c.close)

----------------------------------------------------------------------------
(* The chart library's candlestick series, as the dashboards use it:       *)
(* setData(list) replaces the held data by the list it is handed;          *)
(* update(bar) appends a bar newer than the last one, replaces the last    *)
(* bar when the times are equal, and throws ("Cannot update oldest data")  *)
(* when the bar is older than the last one.                                *)

SeriesSetData(data, list) == list

UpdateThrows(data, bar) == Len(data) > 0 /\ bar.time < Last(data).time

SeriesUpdate(data, bar) ==
    IF Len(data) = 0 \/ bar.time > Last(data).time THEN Append(data, bar)
    ELSE IF bar.time = Last(data).time THEN Append(Front(data), bar)
    ELSE data

----------------------------------------------------------------------------
(* State *)

VARIABLES
    variant,        \* which dashboard variant runs
    ev,             \* the event processed last and what it handed to the chart
    chartData,      \* the data held by the chart's candlestick series
    currentCandle,  \* templates/dashboard.jsx: <<>> (null) or <<candle>>
    lastPrice,      \* templates/dashboard.jsx: <<>> (null) or <<price>>
    candles,        \* TradingDashboard: the candles state (the list as received)
    show,           \* TradingDashboard: the Volume / SMA / RSI switches
    currentPrice,   \* TradingDashboard (v8): the price state, <<>> (null) or <<price>>
    series,         \* ChartComponent: the data of the volume, sma and rsi series
    visible,        \* ChartComponent: the visible option of those series
    priceLine,      \* ChartComponent (v8): <<>> or the price of the LIVE line
    calcIn,         \* the arguments of an indicator computation run on its own
    calcOut,        \* the function that ran last and the series it returned
    tickLog,        \* per one-minute bucket, the prices of the ticks received so far
    trades,         \* TradingDashboard (v8): the trades state, newest first
    placed,         \* every valid trade placed so far, newest first
    openPositions,  \* Dashboard (dashboard.jsx): the openPositions state
    tradeHistory,   \* Dashboard (dashboard.jsx): the tradeHistory state
    performance,    \* Dashboard (dashboard.jsx): the performance state
    seenIds,        \* the ids of the trade events received so far
    closedIds,      \* the ids of the trade_closed events received so far
    allFresh,       \* every trade_executed so far carried an id not seen before
    indicators,     \* ChartIndicatorManager: the indicators map, in insertion order
    lineSeries,     \* the line series the manager has on the chart, by title
    returned,       \* what the last addIndicator call returned
    shouldAutoScroll,   \* Dashboard: shouldAutoScrollRef.current
    lastScrollTime,     \* Dashboard: lastScrollTimeRef.current
    dateNow,        \* Date.now()
    timers,         \* the times at which the pending scroll timers are due
    removed,        \* the effect cleanup has run and removed the chart
    chartCalls,     \* the chart and series methods the last step called
    atEnd,          \* the visible range reaches the last bar
    dataProperty    \* what candleSeries.data evaluates to in the library at hand

templateVars == <<currentCandle, lastPrice>>

dashVars == <<candles, show, currentPrice, series, visible, priceLine>>

calcVars == <<calcIn, calcOut>>

tradeVars == <<trades, placed>>

accountVars == <<openPositions, tradeHistory, performance, seenIds, closedIds, allFresh>>

registryVars == <<indicators, lineSeries, returned>>

scrollVars ==
    <<shouldAutoScroll, lastScrollTime, dateNow, timers, removed, chartCalls, atEnd,
      dataProperty>>

appVars == <<tradeVars, accountVars, registryVars, scrollVars>>

\* the record of an event: its kind, its input (a list; a single candle or
\* tick is a list of one, null the empty list), the bar handed to
\* series.update (a list of at most one), the lists handed to
\* series.setData (at most one), and how an exception ended the handler
\* ("none", "caught" by the handler's try/catch, "uncaught")
Event(kind, input, update, setData, raised) ==
    [kind |-> kind, input |-> input, update |-> update, setData |-> setData,
     raised |-> raised]

NoEvent == Event("init", <<>>, <<>>, <<>>, "none")

\* no indicator computation has run on its own
NoResult == [fn |-> "none", result |-> <<>>, averages |-> <<>>]

CalcIdle ==
    /\ calcIn = [kind |-> "none", data |-> <<>>, period |-> 0]
    /\ calcOut = NoResult

\* the time a scroll timer waits, in ms
ScrollDelay == 2000

\* TradingDashboard: no trade, no position, no closed trade, all counters 0;
\* ChartIndicatorManager: this.indicators = new Map() on a chart without
\* line series
AppIdle ==
    /\ trades = <<>>
    /\ placed = <<>>
    /\ openPositions = <<>>
    /\ tradeHistory = <<>>
    /\ performance = [profit |-> 0, trades |-> 0, winRate |-> Num(0), wins |-> 0, losses |-> 0]
    /\ seenIds = {}
    /\ closedIds = {}
    /\ allFresh = TRUE
    /\ indicators = <<>>
    /\ lineSeries = <<>>
    /\ returned = [value |-> "none", series |-> 0]

\* useRef(true), useRef(0), a mounted chart showing its end, no timer; the
\* wall clock is far from 0
ScrollIdle ==
    /\ shouldAutoScroll = TRUE
    /\ lastScrollTime = 0
    /\ dateNow = ScrollDelay
    /\ timers = {}
    /\ removed = FALSE
    /\ chartCalls = {}
    /\ atEnd = TRUE

----------------------------------------------------------------------------
(* templates/dashboard.jsx: candles aggregated from ticks *)

Epochs == {30 * k : k \in 0..MaxTick}

Quotes == {Num(1), Num(2)}

\* Math.floor(tick.epoch / 60) * 60
TickBucket(epoch) == (epoch \div 60) * 60

\* the value of currentCandle after a tick
TickCandle(cur, epoch, price) ==
    LET timestamp == TickBucket(epoch)
    IN  IF cur = <<>> \/ cur[1].time # timestamp
        THEN Candle(timestamp, price, price, price, price)
        ELSE [cur[1] EXCEPT !.high = MathMax(cur[1].high, price),
                            !.low = MathMin(cur[1].low, price),
                            !.close = price]

\* socket.onmessage with data.tick; an exception thrown by update leaves
\* the handler before setLastPrice
Tick(epoch, price) ==
    LET bar == TickCandle(currentCandle, epoch, price)
        throws == UpdateThrows(chartData, bar)
    IN  /\ variant = "template"
        /\ currentCandle' = <<bar>>
        /\ chartData' = SeriesUpdate(chartData, bar)
        /\ lastPrice' = IF throws THEN lastPrice ELSE <<price>>
        /\ ev' = Event("tick", <<[epoch |-> epoch, quote |-> price]>>, <<bar>>, <<>>,
                       IF throws THEN "uncaught" ELSE "none")
        /\ UNCHANGED <<variant, dashVars, calcVars, appVars>>

----------------------------------------------------------------------------
(* ChartIndicatorManager (chartIndicator.js): updateCandles, updateCandle *)

\* the candles of the events as they arrive: the time is 0 when the field is
\* missing, the prices are text
RawCandle(t, o, h, l, c) == [time |-> t, open |-> o, high |-> h, low |-> l, close |-> c]

RawPrices == {<<"1">>, <<"2">>, <<"x">>}

RawCandles ==
    {RawCandle(t, o, <<"2">>, <<"1">>, c) :
        t \in 0..MaxTime,
        o \in {<<"1">>},
        c \in RawPrices}

RECURSIVE SeqsUpTo(_, _)
SeqsUpTo(S, n) ==
    IF n = 0 THEN {<<>>}
    ELSE LET shorter == SeqsUpTo(S, n - 1)
         IN  shorter \cup {Append(s, x) : s \in {q \in shorter : Len(q) = n - 1}, x \in S}

RawHistories == SeqsUpTo(RawCandles, MaxHist)

\* Math.floor(Date.now() / 1000): the wall clock is not behind the feed
Clock == {MaxTime}

\* { time: c.time || now, open: parseFloat(c.open), ... }
FormatCandle(c, now) ==
    Candle(IF c.time # 0 THEN c.time ELSE now,
           ParseFloat(c.open), ParseFloat(c.high), ParseFloat(c.low), ParseFloat(c.close))

FormatCandles(list, now) == [i \in 1..Len(list) |-> FormatCandle(list[i], now)]

\* updateCandles(candles): an empty list returns early
updateCandles(list, now) ==
    /\ variant = "manager"
    /\ IF Len(list) = 0
       THEN /\ ev' = Event("updateCandles", list, <<>>, <<>>, "none")
            /\ UNCHANGED chartData
       ELSE LET formatted == FormatCandles(list, now)
            IN  /\ chartData' = SeriesSetData(chartData, formatted)
                /\ ev' = Event("updateCandles", list, <<>>, <<formatted>>, "none")
    /\ UNCHANGED <<variant, templateVars, dashVars, calcVars, appVars, tickLog>>

\* updateCandle(candle): candle is a list of one, or empty for null; an
\* exception of update is caught and logged
updateCandle(candle, now) ==
    /\ variant = "manager"
    /\ IF Len(candle) = 0
       THEN /\ ev' = Event("updateCandle", candle, <<>>, <<>>, "none")
            /\ UNCHANGED chartData
       ELSE LET formattedCandle == FormatCandle(candle[1], now)
            IN  /\ chartData' = SeriesUpdate(chartData, formattedCandle)
                /\ ev' = Event("updateCandle", candle, <<formattedCandle>>, <<>>,
                               IF UpdateThrows(chartData, formattedCandle)
                               THEN "caught" ELSE "none")
    /\ UNCHANGED <<variant, templateVars, dashVars, calcVars, appVars, tickLog>>

----------------------------------------------------------------------------
(* The socket dashboards (frontend/src/dashboard.jsx and its two shorter    *)
(* variants): "candles" and "candle_update" go to the chart as received    *)

SockCandles ==
    {Candle(t, Num(1), Num(2), Num(1), Num(c)) : t \in 0..MaxTime, c \in 1..2}

SockHistories == SeqsUpTo(SockCandles, MaxHist)

\* socket.on("candles"): if (candles && candles.length > 0) setData(candles)
OnCandles(data, list) ==
    IF Len(list) > 0 THEN SeriesSetData(data, list) ELSE data

\* socket.on("candle_update"): if (candle) update(candle)
OnCandleUpdate_SetData(data, candle) ==
    IF Len(candle) > 0 THEN SeriesSetData(data, candle) ELSE data

OnCandleUpdate(data, candle) ==
    IF Len(candle) > 0 THEN SeriesUpdate(data, candle[1]) ELSE data

SockCandlesEvent(list) ==
    /\ variant = "socket"
    /\ chartData' = OnCandles(chartData, list)
    /\ ev' = Event("candles", list, <<>>,
                   IF Len(list) > 0 THEN <<list>> ELSE <<>>, "none")
    /\ UNCHANGED <<variant, templateVars, dashVars, calcVars, appVars, tickLog>>

SockCandleUpdate(candle) ==
    /\ variant = "socket"
    /\ chartData' = OnCandleUpdate(chartData, candle)
    /\ ev' = Event("candle_update", candle, candle, <<>>,
                   IF Len(candle) > 0 /\ UpdateThrows(chartData, candle[1])
                   THEN "uncaught" ELSE "none")
    /\ UNCHANGED <<variant, templateVars, dashVars, calcVars, appVars, tickLog>>

----------------------------------------------------------------------------
(* ChartComponent: the indicators computed in the data effect *)

Point(t, v) == [time |-> t, value |-> v]

\* closes.slice(from, to) with 0-based from (inclusive) and to (exclusive)
Slice(s, from, to) ==
    LET lo == IF from < 0 THEN 0 ELSE from
        hi == IF to > Len(s) THEN Len(s) ELSE to
    IN  SubSeq(s, lo + 1, hi)

\* xs.reduce((a, b) => a + b, 0)
RECURSIVE ReduceSum(_)
ReduceSum(xs) ==
    IF Len(xs) = 0 THEN Num(0)
    ELSE NumAdd(ReduceSum(Front(xs)), Last(xs))

\* candleData.map(c => parseFloat(c.close))
Closes(candleData) == [k \in 1..Len(candleData) |-> ParseFloat(candleData[k].close)]

SMA20_slice_TimeOfWindowStart(candleData) ==
    LET closes == Closes(candleData)
        tail == Slice(closes, 19, Len(closes))
    IN  [k \in 1..Len(tail) |->
            LET i == k - 1
            IN  Point(candleData[i + 1].time,
                      NumDiv(ReduceSum(Slice(closes, i, i + 20)), Num(20)))]

\* the v8 ChartComponent: closes.slice(19).map((_, i) => ...), the window of
\* entry i is closes.slice(i, i + 20) and its time that of candle i + 19
SMA20_slice(candleData) ==
    LET closes == Closes(candleData)
        tail == Slice(closes, 19, Len(closes))
    IN  [k \in 1..Len(tail) |->
            LET i == k - 1
            IN  Point(candleData[i + 19 + 1].time,
                      NumDiv(ReduceSum(Slice(closes, i, i + 20)), Num(20)))]

\* the v7 ChartComponent: closes.map((_, i) => i < 19 ? null : ...) followed
\* by filter(Boolean); the window of index i is closes.slice(i - 19, i + 1)
SMA20_map(candleData) ==
    LET closes == Closes(candleData)
        IsPoint(x) == Len(x) > 0
        mapped == [k \in 1..Len(closes) |->
                      LET i == k - 1
                      IN  IF i < 19 THEN <<>>
                          ELSE <<Point(candleData[i + 1].time,
                                       NumDiv(ReduceSum(Slice(closes, i - 19, i + 1)),
                                              Num(20)))>>]
        kept == SelectSeq(mapped, IsPoint)
    IN  [k \in 1..Len(kept) |-> kept[k][1]]

\* the v8 ChartComponent, "RSI14 (Wilder)": the loop from index i to the end
\* with the running averages
RECURSIVE RSI14_wilder_from(_, _, _, _, _)
RSI14_wilder_from(candleData, closes, i, avgGain, avgLoss) ==
    IF i >= Len(closes) THEN <<>>
    ELSE LET diff == NumSub(closes[i + 1], closes[i])
             gain == IF NumGt(diff, Num(0)) THEN diff ELSE Num(0)
             loss == IF NumLt(diff, Num(0)) THEN NumNeg(diff) ELSE Num(0)
             g == IF i = 14 THEN NumDiv(gain, Num(14))
                  ELSE IF i > 14
                       THEN NumDiv(NumAdd(NumMul(avgGain, Num(13)), gain), Num(14))
                       ELSE avgGain
             l == IF i = 14 THEN NumDiv(loss, Num(14))
                  ELSE IF i > 14
                       THEN NumDiv(NumAdd(NumMul(avgLoss, Num(13)), loss), Num(14))
                       ELSE avgLoss
             rs == IF NumEq(l, Num(0)) THEN Num(100) ELSE NumDiv(g, l)
             rsiVal == IF NumEq(l, Num(0)) THEN Num(100)
                       ELSE NumSub(Num(100), NumDiv(Num(100), NumAdd(Num(1), rs)))
             rest == RSI14_wilder_from(candleData, closes, i + 1, g, l)
         IN  IF i >= 14 THEN <<Point(candleData[i + 1].time, rsiVal)>> \o rest
             ELSE rest

RSI14_wilder(candleData) ==
    RSI14_wilder_from(candleData, Closes(candleData), 1, Num(0), Num(0))

\* the v7 ChartComponent, "RSI (REAL CALCULATION)": the loop from index i
\* with the running gains and losses
RECURSIVE RSI14_real_from(_, _, _, _, _)
RSI14_real_from(candleData, closes, i, gains, losses) ==
    IF i >= Len(closes) THEN <<>>
    ELSE LET diff == NumSub(closes[i + 1], closes[i])
             g0 == IF i = 14 THEN NumDiv(gains, Num(14)) ELSE gains
             l0 == IF i = 14 THEN NumDiv(losses, Num(14)) ELSE losses
             g1 == IF NumGt(diff, Num(0)) THEN NumAdd(g0, diff) ELSE g0
             l1 == IF NumGt(diff, Num(0)) THEN l0 ELSE NumSub(l0, diff)
             avgGain == NumDiv(g1, Num(14))
             avgLoss == NumDiv(l1, Num(14))
             rs == IF NumEq(avgLoss, Num(0)) THEN Num(100) ELSE NumDiv(avgGain, avgLoss)
             rsi == NumSub(Num(100), NumDiv(Num(100), NumAdd(Num(1), rs)))
             g2 == NumAdd(NumSub(g1, NumDiv(g1, Num(14))),
                          IF NumGt(diff, Num(0)) THEN diff ELSE Num(0))
             l2 == NumAdd(NumSub(l1, NumDiv(l1, Num(14))),
                          IF NumLt(diff, Num(0)) THEN NumNeg(diff) ELSE Num(0))
         IN  IF i >= 14
             THEN <<Point(candleData[i + 1].time, rsi)>>
                      \o RSI14_real_from(candleData, closes, i + 1, g2, l2)
             ELSE RSI14_real_from(candleData, closes, i + 1, g1, l1)

RSI14_real(candleData) ==
    RSI14_real_from(candleData, Closes(candleData), 1, Num(0), Num(0))

\* the running averages of the v8 loop at every index that pushes a point:
\* avgGain and avgLoss as they stand when rs is computed
RECURSIVE RSI14_wilder_averages_from(_, _, _, _)
RSI14_wilder_averages_from(closes, i, avgGain, avgLoss) ==
    IF i >= Len(closes) THEN <<>>
    ELSE LET diff == NumSub(closes[i + 1], closes[i])
             gain == IF NumGt(diff, Num(0)) THEN diff ELSE Num(0)
             loss == IF NumLt(diff, Num(0)) THEN NumNeg(diff) ELSE Num(0)
             g == IF i = 14 THEN NumDiv(gain, Num(14))
                  ELSE IF i > 14
                       THEN NumDiv(NumAdd(NumMul(avgGain, Num(13)), gain), Num(14))
                       ELSE avgGain
             l == IF i = 14 THEN NumDiv(loss, Num(14))
                  ELSE IF i > 14
                       THEN NumDiv(NumAdd(NumMul(avgLoss, Num(13)), loss), Num(14))
                       ELSE avgLoss
             rest == RSI14_wilder_averages_from(closes, i + 1, g, l)
         IN  IF i >= 14 THEN <<[avgGain |-> g, avgLoss |-> l]>> \o rest
             ELSE rest

RSI14_wilder_averages(candleData) ==
    RSI14_wilder_averages_from(Closes(candleData), 1, Num(0), Num(0))

\* the constants avgGain and avgLoss of the v7 loop at every index that
\* pushes a point
RECURSIVE RSI14_real_averages_from(_, _, _, _)
RSI14_real_averages_from(closes, i, gains, losses) ==
    IF i >= Len(closes) THEN <<>>
    ELSE LET diff == NumSub(closes[i + 1], closes[i])
             g0 == IF i = 14 THEN NumDiv(gains, Num(14)) ELSE gains
             l0 == IF i = 14 THEN NumDiv(losses, Num(14)) ELSE losses
             g1 == IF NumGt(diff, Num(0)) THEN NumAdd(g0, diff) ELSE g0
             l1 == IF NumGt(diff, Num(0)) THEN l0 ELSE NumSub(l0, diff)
             g2 == NumAdd(NumSub(g1, NumDiv(g1, Num(14))),
                          IF NumGt(diff, Num(0)) THEN diff ELSE Num(0))
             l2 == NumAdd(NumSub(l1, NumDiv(l1, Num(14))),
                          IF NumLt(diff, Num(0)) THEN NumNeg(diff) ELSE Num(0))
         IN  IF i >= 14
             THEN <<[avgGain |-> NumDiv(g1, Num(14)), avgLoss |-> NumDiv(l1, Num(14))]>>
                      \o RSI14_real_averages_from(closes, i + 1, g2, l2)
             ELSE RSI14_real_averages_from(closes, i + 1, g1, l1)

RSI14_real_averages(candleData) ==
    RSI14_real_averages_from(Closes(candleData), 1, Num(0), Num(0))

\* the volume histogram: |close - open| times a factor, coloured by direction
VolumeData(candleData, factor, upWhenEqual) ==
    [k \in 1..Len(candleData) |->
        LET open == ParseFloat(candleData[k].open)
            close == ParseFloat(candleData[k].close)
        IN  [time |-> candleData[k].time,
             value |-> NumMul(MathAbs(NumSub(close, open)), Num(factor)),
             up |-> IF upWhenEqual THEN NumGe(close, open) ELSE NumGt(close, open)]]

\* candleData.map(c => ({ time: c.time, open: parseFloat(c.open), ... }))
FormattedCandles(candleData) ==
    [k \in 1..Len(candleData) |->
        Candle(candleData[k].time,
               ParseFloat(candleData[k].open), ParseFloat(candleData[k].high),
               ParseFloat(candleData[k].low), ParseFloat(candleData[k].close))]

----------------------------------------------------------------------------
(* ChartComponent: the data effect, run after every change of candleData,  *)
(* showVolume, showSMA, showRSI or currentPrice                            *)

SMAPeriod == 20

RSIPeriod == 14

\* the histories the model feeds to the dashboards: the closes are a ramp
\* or a zigzag over the first fifteen candles and level afterwards
Shapes == {"zig"}

Defects == {"none", "bad"}

ShapeClose(shape, i) ==
    LET j == IF i < 14 THEN i ELSE 14
    IN  IF shape = "up" THEN 10 + j ELSE 10 + (j % 2)

\* a history of n candles at times 1..n; with the defect "bad" the close of
\* the last candle is not a number
History(n, shape, defect) ==
    [k \in 1..n |->
        RawCandle(k, ToText(10), ToText(40), ToText(1),
                  IF defect = "bad" /\ k = n THEN <<"x">>
                  ELSE ToText(ShapeClose(shape, k - 1)))]

HistoryLens == {0, 14, 19, MaxLen}

Histories == {History(n, sh, d) : n \in HistoryLens, sh \in Shapes, d \in Defects}

\* what the blocks of the effect compute from a candleData, per history
Computed ==
    [h \in Histories |->
        [candle |-> FormattedCandles(h),
         volume |-> [v8 |-> VolumeData(h, 1800, TRUE), v7 |-> VolumeData(h, 1500, FALSE)],
         sma |-> [v8 |-> SMA20_slice(h), v7 |-> SMA20_map(h)],
         rsi |-> [v8 |-> RSI14_wilder(h), v7 |-> RSI14_real(h)]]]

\* the conditions under which the blocks of the effect compute their
\* indicator and hand it to setData
SmaRuns(candleData, showSMA) == showSMA /\ Len(candleData) >= 20

RsiRuns(candleData, showRSI, v) ==
    showRSI /\ Len(candleData) >= (IF v = "v8" THEN 15 ELSE 14)

VolumeRuns(showVolume, v) == v = "v8" \/ showVolume

\* the series one run of the effect hands new data to
SetDataCalls(candleData, sh, v) ==
    IF Len(candleData) = 0 THEN {}
    ELSE {"candle"}
         \cup (IF VolumeRuns(sh.vol, v) THEN {"volume"} ELSE {})
         \cup (IF SmaRuns(candleData, sh.sma) THEN {"sma"} ELSE {})
         \cup (IF RsiRuns(candleData, sh.rsi, v) THEN {"rsi"} ELSE {})

SmaBlock_Appends(old, candleData, showSMA, v) ==
    IF SmaRuns(candleData, showSMA) THEN old \o Computed[candleData].sma[v] ELSE old

\* the sma series after the effect's SMA block
SmaBlock(old, candleData, showSMA, v) ==
    IF SmaRuns(candleData, showSMA) THEN Computed[candleData].sma[v] ELSE old

\* the rsi series after the effect's RSI block
RsiBlock(old, candleData, showRSI, v) ==
    IF RsiRuns(candleData, showRSI, v) THEN Computed[candleData].rsi[v] ELSE old

\* the volume series after the effect's volume block
VolumeBlock(old, candleData, showVolume, v) ==
    IF VolumeRuns(showVolume, v) THEN Computed[candleData].volume[v] ELSE old

\* the effect with the new props; an empty candleData returns at once
Effect(candleData, sh, pr) ==
    IF Len(candleData) = 0
    THEN UNCHANGED <<chartData, series, visible, priceLine>>
    ELSE /\ chartData' = SeriesSetData(chartData, Computed[candleData].candle)
         /\ series' = [volume |-> VolumeBlock(series.volume, candleData, sh.vol, variant),
                       sma |-> SmaBlock(series.sma, candleData, sh.sma, variant),
                       rsi |-> RsiBlock(series.rsi, candleData, sh.rsi, variant)]
         /\ visible' = [volume |-> sh.vol, sma |-> sh.sma, rsi |-> sh.rsi]
         /\ priceLine' = IF variant = "v8" /\ Len(pr) > 0 /\ ~IsNaN(pr[1])
                         THEN pr ELSE <<>>

----------------------------------------------------------------------------
(* TradingDashboard (v8 and v7) around ChartComponent *)

\* socket.on("candles_update"): setCandles(data.candles || []); the effect
\* of ChartComponent follows the render
CandlesUpdate(list) ==
    /\ variant \in {"v8", "v7"}
    /\ candles' = list
    /\ Effect(list, show, currentPrice)
    /\ ev' = Event("candles_update", list, <<>>,
                   IF Len(list) > 0 THEN <<Computed[list].candle>> ELSE <<>>, "none")
    /\ UNCHANGED <<variant, templateVars, show, currentPrice, calcVars, appVars, tickLog>>

\* a click on the Volume, SMA or RSI button
Toggle(ind) ==
    LET sh == [show EXCEPT ![ind] = ~show[ind]]
    IN  /\ variant \in {"v8", "v7"}
        /\ show' = sh
        /\ Effect(candles, sh, currentPrice)
        /\ ev' = Event("toggle", <<ind>>, <<>>,
                       IF Len(candles) > 0 THEN <<Computed[candles].candle>> ELSE <<>>,
                       "none")
        /\ UNCHANGED <<variant, templateVars, candles, currentPrice, calcVars, appVars, tickLog>>

\* socket.on("price_update") of the v8 dashboard, which passes currentPrice
\* to ChartComponent
PriceUpdate(p) ==
    /\ variant = "v8"
    /\ currentPrice' = <<p>>
    /\ Effect(candles, show, <<p>>)
    /\ ev' = Event("price_update", <<p>>, <<>>,
                   IF Len(candles) > 0 THEN <<Computed[candles].candle>> ELSE <<>>,
                   "none")
    /\ UNCHANGED <<variant, templateVars, candles, show, calcVars, appVars, tickLog>>

DashIdle ==
    /\ candles = <<>>
    /\ show = [vol |-> TRUE, sma |-> TRUE, rsi |-> TRUE]
    /\ currentPrice = <<>>
    /\ series = [volume |-> <<>>, sma |-> <<>>, rsi |-> <<>>]
    /\ visible = [volume |-> TRUE, sma |-> TRUE, rsi |-> TRUE]
    /\ priceLine = <<>>

DashInit ==
    /\ variant \in {"v8", "v7"}
    /\ ev = NoEvent
    /\ chartData = <<>>
    /\ currentCandle = <<>>
    /\ lastPrice = <<>>
    /\ candles = <<>>
    /\ show = [vol |-> TRUE, sma |-> TRUE, rsi |-> (variant = "v8")]
    /\ currentPrice = <<>>
    /\ series = [volume |-> <<>>, sma |-> <<>>, rsi |-> <<>>]
    /\ visible = [volume |-> TRUE, sma |-> TRUE, rsi |-> TRUE]
    /\ priceLine = <<>>
    /\ CalcIdle
    /\ AppIdle
    /\ ScrollIdle
    /\ dataProperty = "undefined"
    /\ tickLog = {}

DoCandlesUpdate == \E list \in Histories : CandlesUpdate(list)

DoToggle == \E ind \in {"vol", "sma", "rsi"} : Toggle(ind)

DoPriceUpdate == \E p \in {Num(1)} : PriceUpdate(p)

DashNext ==
    \/ DoCandlesUpdate
    \/ DoToggle
    \/ DoPriceUpdate

----------------------------------------------------------------------------
(* ChartIndicatorManager.IndicatorCalculator *)

\* the loop of calculateEMA from index i with the running ema
RECURSIVE EMA_from(_, _, _, _)
EMA_from(data, i, ema, multiplier) ==
    IF i >= Len(data) THEN <<>>
    ELSE LET next == NumAdd(NumMul(NumSub(data[i + 1].close, ema), multiplier), ema)
         IN  <<Point(data[i + 1].time, next)>> \o EMA_from(data, i + 1, next, multiplier)

\* sum / period over the first period closes
EMA_Seed(data, period) ==
    NumDiv(ReduceSum([k \in 1..period |-> data[k].close]), Num(period))

EMA_MultiplierNoPlusOne(period) == NumDiv(Num(2), Num(period))

\* 2 / (period + 1)
EMA_Multiplier(period) == NumDiv(Num(2), Num(period + 1))

calculateEMA_SkipsSeed(data, period) ==
    IF Len(data) < period THEN <<>>
    ELSE EMA_from(data, period, EMA_Seed(data, period), EMA_Multiplier(period))

calculateEMA(data, period) ==
    IF Len(data) < period THEN <<>>
    ELSE LET ema == EMA_Seed(data, period)
         IN  <<Point(data[period].time, ema)>>
                 \o EMA_from(data, period, ema, EMA_Multiplier(period))

\* the inner loop of calculateRSI over j .. i: the sums of the rises and of
\* the falls of the close
RECURSIVE RSI_sums(_, _, _, _, _)
RSI_sums(data, j, i, gains, losses) ==
    IF j > i THEN [gains |-> gains, losses |-> losses]
    ELSE LET change == NumSub(data[j + 1].close, data[j].close)
         IN  IF NumGe(change, Num(0))
             THEN RSI_sums(data, j + 1, i, NumAdd(gains, change), losses)
             ELSE RSI_sums(data, j + 1, i, gains, NumSub(losses, change))

\* avgGain and avgLoss of calculateRSI at index i
RSI_averages(data, period, i) ==
    LET sums == RSI_sums(data, i - period + 1, i, Num(0), Num(0))
    IN  [avgGain |-> NumDiv(sums.gains, Num(period)),
         avgLoss |-> NumDiv(sums.losses, Num(period))]

calculateRSI_averages(data, period) ==
    IF Len(data) < period + 1 THEN <<>>
    ELSE [k \in 1..(Len(data) - period) |-> RSI_averages(data, period, period + k - 1)]

calculateRSI_NoOnePlus(data, period) ==
    IF Len(data) < period + 1 THEN <<>>
    ELSE [k \in 1..(Len(data) - period) |->
            LET i == period + k - 1
                avg == RSI_averages(data, period, i)
                rs == IF NumEq(avg.avgLoss, Num(0)) THEN Num(100)
                      ELSE NumDiv(avg.avgGain, avg.avgLoss)
                rsi == NumSub(Num(100), NumDiv(Num(100), rs))
            IN  Point(data[i + 1].time, rsi)]

calculateRSI(data, period) ==
    IF Len(data) < period + 1 THEN <<>>
    ELSE [k \in 1..(Len(data) - period) |->
            LET i == period + k - 1
                avg == RSI_averages(data, period, i)
                rs == IF NumEq(avg.avgLoss, Num(0)) THEN Num(100)
                      ELSE NumDiv(avg.avgGain, avg.avgLoss)
                rsi == NumSub(Num(100), NumDiv(Num(100), NumAdd(Num(1), rs)))
            IN  Point(data[i + 1].time, rsi)]

----------------------------------------------------------------------------
(* The indicator computations run on their own, on a fresh input each *)

\* the closes of the SMA inputs: a ramp, a zigzag or a sawtooth
SmaClose(shape, i) ==
    IF shape = "up" THEN 10 + i
    ELSE IF shape = "zig" THEN 10 + (i % 2)
    ELSE 10 + ((i * i) % 7)

\* n candles at times 60, 120, ...; bad > 0 makes the close of candle bad
\* text that is no number
SmaInput(n, shape, bad) ==
    [k \in 1..n |->
        RawCandle(60 * k, ToText(10), ToText(40), ToText(1),
                  IF k = bad THEN <<"x">> ELSE ToText(SmaClose(shape, k - 1)))]

SmaInputs ==
    {SmaInput(n, sh, bad) : n \in 0..MaxSmaLen, sh \in {"up", "zig", "saw"},
                            bad \in {0, 2, 21}}

\* the closes of the RSI inputs: a ramp up, a ramp down, a zigzag, a
\* sawtooth or a level line
RsiClose(shape, i) ==
    IF shape = "up" THEN 10 + i
    ELSE IF shape = "down" THEN 40 - i
    ELSE IF shape = "zig" THEN 10 + (i % 2)
    ELSE IF shape = "saw" THEN 10 + ((i * i) % 7)
    ELSE 10

\* n candles at times 60, 120, ...; bad > 0 makes the close of candle bad
\* text that is no number
RsiInput(n, shape, bad) ==
    [k \in 1..n |->
        RawCandle(60 * k, ToText(10), ToText(40), ToText(1),
                  IF k = bad THEN <<"x">> ELSE ToText(RsiClose(shape, k - 1)))]

RsiInputs ==
    {RsiInput(n, sh, bad) : n \in 0..MaxRsiLen,
                            sh \in {"up", "down", "zig", "saw", "flat"},
                            bad \in {0, 2}}

\* the history of the end-to-end run: 25 one-minute candles closing at
\* 10, 11, ..., 34
EndToEndHistory ==
    [k \in 1..25 |-> RawCandle(60 * k, ToText(10), ToText(40), ToText(1), ToText(9 + k))]

\* the candles handed to calculateEMA and calculateRSI: numbers, at times
\* 60, 120, ...
CalcCloses == {1, 2, 3, 10}

CalcData ==
    {[k \in 1..Len(cs) |-> [time |-> 60 * k, close |-> Num(cs[k])]] :
        cs \in SeqsUpTo(CalcCloses, MaxCalcLen)}

CalcInit ==
    /\ variant = "calc"
    /\ ev = NoEvent
    /\ chartData = <<>>
    /\ currentCandle = <<>>
    /\ lastPrice = <<>>
    /\ DashIdle
    /\ calcOut = NoResult
    /\ \/ \E d \in SmaInputs : calcIn = [kind |-> "chart", data |-> d, period |-> SMAPeriod]
       \/ \E d \in RsiInputs : calcIn = [kind |-> "rsi", data |-> d, period |-> RSIPeriod]
       \/ calcIn = [kind |-> "endToEnd", data |-> EndToEndHistory, period |-> 0]
       \/ \E d \in CalcData, p \in 1..MaxPeriod :
              calcIn = [kind |-> "calc", data |-> d, period |-> p]
    /\ AppIdle
    /\ ScrollIdle
    /\ dataProperty = "undefined"
    /\ tickLog = {}

\* the SMA block of the v8 ChartComponent with showSMA on
RunSMA20Slice ==
    /\ calcIn.kind = "chart"
    /\ Len(calcIn.data) >= 20
    /\ calcOut' = [fn |-> "SMA20_slice", result |-> SMA20_slice(calcIn.data),
                    averages |-> <<>>]
    /\ UNCHANGED <<variant, ev, chartData, templateVars, dashVars, calcIn, appVars, tickLog>>

\* the SMA block of the v7 ChartComponent with showSMA on
RunSMA20Map ==
    /\ calcIn.kind = "chart"
    /\ Len(calcIn.data) >= 20
    /\ calcOut' = [fn |-> "SMA20_map", result |-> SMA20_map(calcIn.data),
                    averages |-> <<>>]
    /\ UNCHANGED <<variant, ev, chartData, templateVars, dashVars, calcIn, appVars, tickLog>>

RunCalculateEMA ==
    /\ calcIn.kind = "calc"
    /\ calcOut' = [fn |-> "calculateEMA",
                    result |-> calculateEMA(calcIn.data, calcIn.period),
                    averages |-> <<>>]
    /\ UNCHANGED <<variant, ev, chartData, templateVars, dashVars, calcIn, appVars, tickLog>>

\* the RSI block of the v8 ChartComponent with showRSI on
RunRSI14Wilder ==
    /\ calcIn.kind = "rsi"
    /\ Len(calcIn.data) >= 15
    /\ calcOut' = [fn |-> "RSI14_wilder", result |-> RSI14_wilder(calcIn.data),
                    averages |-> RSI14_wilder_averages(calcIn.data)]
    /\ UNCHANGED <<variant, ev, chartData, templateVars, dashVars, calcIn, appVars, tickLog>>

\* the RSI block of the v7 ChartComponent with showRSI on
RunRSI14Real ==
    /\ calcIn.kind = "rsi"
    /\ Len(calcIn.data) >= 14
    /\ calcOut' = [fn |-> "RSI14_real", result |-> RSI14_real(calcIn.data),
                    averages |-> RSI14_real_averages(calcIn.data)]
    /\ UNCHANGED <<variant, ev, chartData, templateVars, dashVars, calcIn, appVars, tickLog>>

RunCalculateRSI ==
    /\ calcIn.kind = "calc"
    /\ calcOut' = [fn |-> "calculateRSI",
                    result |-> calculateRSI(calcIn.data, calcIn.period),
                    averages |-> calculateRSI_averages(calcIn.data, calcIn.period)]
    /\ UNCHANGED <<variant, ev, chartData, templateVars, dashVars, calcIn, appVars, tickLog>>

\* every indicator on the end-to-end history: the SMA and RSI blocks of
\* both ChartComponents, calculateEMA(data, 20) and calculateRSI(data, 14)
\* on the parsed candles
RunEndToEnd ==
    /\ calcIn.kind = "endToEnd"
    /\ calcOut' = [fn |-> "endToEnd",
                    result |-> [sma_v8 |-> SMA20_slice(calcIn.data),
                                sma_v7 |-> SMA20_map(calcIn.data),
                                ema |-> calculateEMA(FormattedCandles(calcIn.data), 20),
                                rsi_v8 |-> RSI14_wilder(calcIn.data),
                                rsi_v7 |-> RSI14_real(calcIn.data),
                                rsi_calc |-> calculateRSI(FormattedCandles(calcIn.data), 14)],
                    averages |-> <<>>]
    /\ UNCHANGED <<variant, ev, chartData, templateVars, dashVars, calcIn, appVars, tickLog>>

CalcNext ==
    \/ RunSMA20Slice
    \/ RunSMA20Map
    \/ RunCalculateEMA
    \/ RunRSI14Wilder
    \/ RunRSI14Real
    \/ RunCalculateRSI
    \/ RunEndToEnd

----------------------------------------------------------------------------
(* The candle store of the three variants as one state machine *)

StoreInit ==
    /\ variant \in {"template", "manager", "socket"}
    /\ ev = NoEvent
    /\ chartData = <<>>
    /\ currentCandle = <<>>
    /\ lastPrice = <<>>
    /\ DashIdle
    /\ CalcIdle
    /\ AppIdle
    /\ ScrollIdle
    /\ dataProperty = "undefined"
    /\ tickLog = {}

DoTick == \E epoch \in Epochs, price \in Quotes : Tick(epoch, price) /\ UNCHANGED tickLog

DoUpdateCandles == \E list \in RawHistories, now \in Clock : updateCandles(list, now)

DoUpdateCandle ==
    \E candle \in SeqsUpTo(RawCandles, 1), now \in Clock : updateCandle(candle, now)

DoSockCandles == \E list \in SockHistories : SockCandlesEvent(list)

DoSockCandleUpdate == \E candle \in SeqsUpTo(SockCandles, 1) : SockCandleUpdate(candle)

StoreNext ==
    \/ DoTick
    \/ DoUpdateCandles
    \/ DoUpdateCandle
    \/ DoSockCandles
    \/ DoSockCandleUpdate

vars == <<variant, ev, chartData, templateVars, dashVars, calcVars, appVars, tickLog>>

Spec == StoreInit /\ [][StoreNext]_vars

----------------------------------------------------------------------------
(* templates/dashboard.jsx on its own, with a log of the ticks per bucket *)

\* the log after a tick: the bucket's first price and all its prices
LogTick(log, epoch, price) ==
    LET b == TickBucket(epoch)
    IN  IF \E r \in log : r.time = b
        THEN {IF r.time = b THEN [r EXCEPT !.prices = @ \cup {price}] ELSE r : r \in log}
        ELSE log \cup {[time |-> b, first |-> price, prices |-> {price}]}

TickLogged(epoch, price) ==
    /\ Tick(epoch, price)
    /\ tickLog' = LogTick(tickLog, epoch, price)

TickInit ==
    /\ StoreInit
    /\ variant = "template"

TickNext == \E epoch \in Epochs, price \in Quotes : TickLogged(epoch, price)

SpecTick == TickInit /\ [][TickNext]_vars

SpecDash == DashInit /\ [][DashNext]_vars

SpecCalc == CalcInit /\ [][CalcNext]_vars

----------------------------------------------------------------------------
(* TradingDashboard (v8): the trades list *)

\* JavaScript values of the event payloads, by typeof
Undefined == [t |-> "undefined", n |-> 0, s |-> ""]

JsNumber(n) == [t |-> "number", n |-> n, s |-> ""]

JsBoolean(b) == [t |-> "boolean", n |-> IF b THEN 1 ELSE 0, s |-> ""]

JsString(str) == [t |-> "string", n |-> 0, s |-> str]

JsNull == [t |-> "object", n |-> 0, s |-> "null"]

\* .slice(0, 50)
TradesCap == 50

\* a trade as trade_placed carries it; the id 0 stands for a missing id
PlacedTrade(id, amount) ==
    [id |-> id, amount |-> amount, profit |-> Undefined, success |-> Undefined,
     exit_reason |-> Undefined]

PlaceTrade_NoCap(prev, trade) == <<trade>> \o prev

\* [trade, ...prev].slice(0, 50)
PlaceTrade(prev, trade) == Slice(<<trade>> \o prev, 0, TradesCap)

\* socket.on("trade_placed"): msg is <<>> for no trade, else a list of one
TradePlaced(msg) ==
    /\ variant = "trades"
    /\ IF msg = <<>> \/ msg[1].id = 0
       THEN UNCHANGED <<trades, placed>>
       ELSE /\ trades' = PlaceTrade(trades, msg[1])
            /\ placed' = <<msg[1]>> \o placed
    /\ ev' = Event("trade_placed", msg, <<>>, <<>>, "none")
    /\ UNCHANGED <<variant, chartData, templateVars, dashVars, calcVars, tickLog,
                   accountVars, registryVars, scrollVars>>

\* a trade_result payload: null, a string or an object
ResultObject(id, profit, success, exit_reason) ==
    [shape |-> "object", id |-> id, profit |-> profit, success |-> success,
     exit_reason |-> exit_reason]

ResultOther(shape) ==
    [shape |-> shape, id |-> 0, profit |-> Undefined, success |-> Undefined,
     exit_reason |-> Undefined]

\* !result || typeof result !== "object" || !result.id
IgnoredResult(result) == result.shape # "object" \/ result.id = 0

\* the fields a result gives the trade it closes
ClosedTrade(t, result) ==
    [t EXCEPT !.profit = IF result.profit.t = "number" THEN result.profit ELSE JsNull,
              !.success = IF result.success.t = "boolean" THEN result.success ELSE JsNull,
              !.exit_reason = IF result.exit_reason.t = "string" THEN result.exit_reason
                              ELSE JsString("closed")]

ApplyResult_ToAll(prev, result) ==
    [k \in 1..Len(prev) |-> ClosedTrade(prev[k], result)]

\* prev.map(t => t.id === result.id ? { ...t, profit, success, exit_reason } : t)
ApplyResult(prev, result) ==
    [k \in 1..Len(prev) |->
        IF prev[k].id = result.id THEN ClosedTrade(prev[k], result) ELSE prev[k]]

\* socket.on("trade_result"), all of it inside try / catch
TradeResult(result) ==
    /\ variant = "trades"
    /\ trades' = IF IgnoredResult(result) THEN trades ELSE ApplyResult(trades, result)
    /\ ev' = Event("trade_result", <<result>>, <<>>, <<>>, "none")
    /\ UNCHANGED <<variant, chartData, templateVars, dashVars, calcVars, tickLog,
                   placed, accountVars, registryVars, scrollVars>>

\* the trades placed: none, one without id, one with the next fresh id, and
\* while the list is short one with the id 1 again
PlacedMsgs ==
    {<<>>, <<PlacedTrade(0, 10)>>, <<PlacedTrade(Len(placed) + 1, 10 + Len(placed))>>}
        \cup (IF Len(placed) \in 1..2 THEN {<<PlacedTrade(1, 99)>>} ELSE {})

\* the results received: for the ids 1 and 2 and for an id no trade has,
\* with fields of the right and of the wrong type; no id; no object
Results ==
    {ResultObject(1, JsNumber(5), JsBoolean(TRUE), JsString("tp")),
     ResultObject(2, JsString("5"), Undefined, Undefined),
     ResultObject(2, JsNumber(0 - 5), JsBoolean(FALSE), JsString("sl")),
     ResultObject(77, JsNumber(5), JsBoolean(TRUE), JsString("tp")),
     ResultObject(0, JsNumber(5), JsBoolean(TRUE), JsString("tp")),
     ResultOther("undefined"), ResultOther("string")}

TradesInit ==
    /\ variant = "trades"
    /\ ev = NoEvent
    /\ chartData = <<>>
    /\ currentCandle = <<>>
    /\ lastPrice = <<>>
    /\ DashIdle
    /\ CalcIdle
    /\ AppIdle
    /\ ScrollIdle
    /\ dataProperty = "undefined"
    /\ tickLog = {}

TradesNext ==
    \/ \E msg \in PlacedMsgs : Len(placed) < MaxPlaced /\ TradePlaced(msg)
    \/ \E result \in Results : TradeResult(result)

SpecTrades == TradesInit /\ [][TradesNext]_vars

----------------------------------------------------------------------------
(* TradingDashboard (v7): open positions, trade history and performance *)

\* a position as trade_executed carries it
Position(id) == [id |-> id, amount |-> 10 * id]

\* a result as trade_closed carries it
ClosedResult(id, pnl) == [id |-> id, pnl |-> pnl]

ClosePosition_DropsFirst(prev, result) == IF prev = <<>> THEN prev ELSE Tail(prev)

\* prev.filter(p => p.id !== result.id)
ClosePosition(prev, result) == SelectSeq(prev, LAMBDA p : p.id # result.id)

\* the updater handed to setPerformance
UpdatePerformance(prev, result) ==
    LET isWin == result.pnl > 0
        won == IF isWin THEN 1 ELSE 0
    IN  [profit |-> prev.profit + result.pnl,
         trades |-> prev.trades + 1,
         wins |-> prev.wins + won,
         losses |-> prev.losses + (1 - won),
         winRate |-> IF prev.trades = 0 THEN Num(0)
                     ELSE NumMul(NumDiv(Num(prev.wins + won), Num(prev.trades + 1)),
                                 Num(100))]

\* socketRef.current.on("trade_executed")
TradeExecuted(trade) ==
    /\ variant = "account"
    /\ openPositions' = Append(openPositions, trade)
    /\ allFresh' = (allFresh /\ trade.id \notin seenIds)
    /\ seenIds' = seenIds \cup {trade.id}
    /\ ev' = Event("trade_executed", <<trade>>, <<>>, <<>>, "none")
    /\ UNCHANGED <<variant, chartData, templateVars, dashVars, calcVars, tickLog,
                   tradeHistory, performance, closedIds,
                   tradeVars, registryVars, scrollVars>>

\* socketRef.current.on("trade_closed")
TradeClosed(result) ==
    /\ variant = "account"
    /\ openPositions' = ClosePosition(openPositions, result)
    /\ tradeHistory' = Append(tradeHistory, result)
    /\ performance' = UpdatePerformance(performance, result)
    /\ seenIds' = seenIds \cup {result.id}
    /\ closedIds' = closedIds \cup {result.id}
    /\ ev' = Event("trade_closed", <<result>>, <<>>, <<>>, "none")
    /\ UNCHANGED <<variant, chartData, templateVars, dashVars, calcVars, tickLog,
                   allFresh, tradeVars, registryVars, scrollVars>>

\* socketRef.current.on("trade_history_update")
TradeHistoryUpdate(history) ==
    /\ variant = "account"
    /\ tradeHistory' = history
    /\ ev' = Event("trade_history_update", history, <<>>, <<>>, "none")
    /\ UNCHANGED <<variant, chartData, templateVars, dashVars, calcVars, tickLog,
                   openPositions, performance, seenIds, closedIds, allFresh,
                   tradeVars, registryVars, scrollVars>>

\* socketRef.current.on("account_reset")
AccountReset ==
    /\ variant = "account"
    /\ openPositions' = <<>>
    /\ tradeHistory' = <<>>
    /\ performance' = [profit |-> 0, trades |-> 0, winRate |-> Num(0), wins |-> 0,
                       losses |-> 0]
    /\ ev' = Event("account_reset", <<>>, <<>>, <<>>, "none")
    /\ UNCHANGED <<variant, chartData, templateVars, dashVars, calcVars, tickLog,
                   seenIds, closedIds, allFresh,
                   tradeVars, registryVars, scrollVars>>

\* the profits and losses the server sends
Pnls == {0 - 2, 0, 3}

AccountInit ==
    /\ variant = "account"
    /\ ev = NoEvent
    /\ chartData = <<>>
    /\ currentCandle = <<>>
    /\ lastPrice = <<>>
    /\ DashIdle
    /\ CalcIdle
    /\ AppIdle
    /\ ScrollIdle
    /\ dataProperty = "undefined"
    /\ tickLog = {}

\* the ids of trade_executed: the least id no event carried yet, or 1 again
ExecutedIds ==
    {1} \cup {id \in 1..MaxId : id \notin seenIds /\ \A j \in 1..(id - 1) : j \in seenIds}

AccountNext ==
    \/ \E id \in ExecutedIds :
          Len(openPositions) < MaxOpen /\ TradeExecuted(Position(id))
    \/ \E id \in 1..MaxId, pnl \in Pnls :
          /\ performance.trades < MaxClosed
          /\ Len(tradeHistory) < MaxClosed
          /\ TradeClosed(ClosedResult(id, pnl))
    \/ \E history \in {<<>>, <<ClosedResult(1, 3)>>} : TradeHistoryUpdate(history)
    \/ AccountReset

SpecAccount == AccountInit /\ [][AccountNext]_vars

----------------------------------------------------------------------------
(* ChartIndicatorManager: the registry of indicators *)

\* this.indicators.has(name)
HasIndicator(registry, name) == \E k \in 1..Len(registry) : registry[k].name = name

\* this.indicators.get(name)
GetIndicator(registry, name) ==
    registry[CHOOSE k \in 1..Len(registry) : registry[k].name = name]

\* the series chart.addLineSeries creates: one the chart does not hold yet
NewSeries(chartSeries) ==
    CHOOSE n \in 1..(Len(chartSeries) + 1) : \A k \in 1..Len(chartSeries) : chartSeries[k] # n

\* the cases of the switch
SupportedTypes == {"rsi", "ema"}

\* addIndicator(name, type, settings)
addIndicator(name, type, settings) ==
    /\ variant = "manager"
    /\ IF HasIndicator(indicators, name)
       THEN /\ returned' = [value |-> "series",
                            series |-> GetIndicator(indicators, name).series]
            /\ UNCHANGED <<indicators, lineSeries>>
       ELSE IF type \in SupportedTypes
       THEN LET added == NewSeries(lineSeries)
            IN  /\ lineSeries' = Append(lineSeries, added)
                /\ indicators' = Append(indicators,
                                    [name |-> name, series |-> added, type |-> type,
                                     settings |-> settings])
                /\ returned' = [value |-> "series", series |-> added]
       ELSE /\ returned' = [value |-> "null", series |-> 0]
            /\ UNCHANGED <<indicators, lineSeries>>
    /\ ev' = Event("addIndicator", <<name, type>>, <<>>, <<>>, "none")
    /\ UNCHANGED <<variant, chartData, templateVars, dashVars, calcVars, tickLog,
                   tradeVars, accountVars, scrollVars>>

\* removeIndicator(name)
removeIndicator(name) ==
    /\ variant = "manager"
    /\ lineSeries' = IF HasIndicator(indicators, name)
                     THEN SelectSeq(lineSeries,
                                    LAMBDA n : n # GetIndicator(indicators, name).series)
                     ELSE lineSeries
    /\ indicators' = SelectSeq(indicators, LAMBDA i : i.name # name)
    /\ returned' = [value |-> "none", series |-> 0]
    /\ ev' = Event("removeIndicator", <<name>>, <<>>, <<>>, "none")
    /\ UNCHANGED <<variant, chartData, templateVars, dashVars, calcVars, tickLog,
                   tradeVars, accountVars, scrollVars>>

\* the types IndicatorSelector offers; handleAddIndicator uses the type as the name
indicatorOptions == {"rsi", "macd", "ema", "sma"}

\* the calls: those of IndicatorSelector, a registered name with another
\* type, and a name of its own with a type of the switch and with another
IndicatorCalls ==
    {<<type, type>> : type \in indicatorOptions}
        \cup {<<"rsi", "ema">>, <<"fast", "ema">>, <<"fast", "volume">>}

\* useState(14)
SelectorPeriod == 14

RegistryInit ==
    /\ variant = "manager"
    /\ ev = NoEvent
    /\ chartData = <<>>
    /\ currentCandle = <<>>
    /\ lastPrice = <<>>
    /\ DashIdle
    /\ CalcIdle
    /\ AppIdle
    /\ ScrollIdle
    /\ dataProperty = "undefined"
    /\ tickLog = {}

RegistryNext ==
    \/ \E call \in IndicatorCalls :
          addIndicator(call[1], call[2], [period |-> SelectorPeriod])
    \/ \E call \in IndicatorCalls : removeIndicator(call[1])

SpecRegistry == RegistryInit /\ [][RegistryNext]_vars

----------------------------------------------------------------------------
(* TradingDashboard (dashboard.jsx): auto-scroll, its timers, and cleanup *)

\* candleSeries.data is no array in any build of the chart library: the
\* property is missing ("undefined"), or it is the method data()
\* ("function"), which takes no argument, so that data.length is 0
DataArity == 0

\* data && data.length > 0
HasData(property) == property = "function" /\ DataArity > 0

\* the visible range changed: handleScroll; the view is at the end of the
\* data afterwards or it is not
HandleScroll(end) ==
    /\ variant = "scroll"
    /\ ~removed
    /\ lastScrollTime' = dateNow
    /\ shouldAutoScroll' = FALSE
    /\ timers' = timers \cup {dateNow + ScrollDelay}
    /\ atEnd' = end
    /\ chartCalls' = {}
    /\ ev' = Event("scroll", <<end>>, <<>>, <<>>, "none")
    /\ UNCHANGED <<variant, chartData, templateVars, dashVars, calcVars, tickLog,
                   dateNow, removed, dataProperty,
                   tradeVars, accountVars, registryVars>>

\* the callback of setTimeout(..., 2000) runs, at its time or later, the
\* timers in the order of their times; no cleanup clears a timer, so it
\* runs on a removed chart too
TimerFires(due) ==
    LET quiet == dateNow - lastScrollTime >= ScrollDelay
    IN  /\ variant = "scroll"
        /\ due \in timers
        /\ due <= dateNow
        /\ \A other \in timers : due <= other
        /\ timers' = timers \ {due}
        /\ chartCalls' = IF quiet THEN {"timeScale", "getVisibleRange"} ELSE {}
        /\ shouldAutoScroll' = IF quiet /\ HasData(dataProperty) THEN atEnd
                               ELSE shouldAutoScroll
        /\ ev' = Event("timer", <<due>>, <<>>, <<>>, "none")
        /\ UNCHANGED <<variant, chartData, templateVars, dashVars, calcVars, tickLog,
                       lastScrollTime, dateNow, removed, atEnd, dataProperty,
                       tradeVars, accountVars, registryVars>>

\* a second passes
ClockTick ==
    /\ variant = "scroll"
    /\ dateNow < ScrollDelay + MaxClock * 1000
    /\ dateNow' = dateNow + 1000
    /\ chartCalls' = {}
    /\ ev' = Event("clock", <<>>, <<>>, <<>>, "none")
    /\ UNCHANGED <<variant, chartData, templateVars, dashVars, calcVars, tickLog,
                   shouldAutoScroll, lastScrollTime, timers, removed, atEnd,
                   dataProperty, tradeVars, accountVars, registryVars>>

\* socketRef.current.on("candles")
ScrollCandles(list) ==
    /\ variant = "scroll"
    /\ ~removed
    /\ chartData' = OnCandles(chartData, list)
    /\ chartCalls' = IF Len(list) > 0 THEN {"setData", "timeScale", "scrollToPosition"}
                     ELSE {}
    /\ shouldAutoScroll' = IF Len(list) > 0 THEN TRUE ELSE shouldAutoScroll
    /\ atEnd' = IF Len(list) > 0 THEN TRUE ELSE atEnd
    /\ ev' = Event("candles", list, <<>>,
                   IF Len(list) > 0 THEN <<list>> ELSE <<>>, "none")
    /\ UNCHANGED <<variant, templateVars, dashVars, calcVars, tickLog,
                   lastScrollTime, dateNow, timers, removed, dataProperty,
                   tradeVars, accountVars, registryVars>>

\* socketRef.current.on("candle_update"); an exception thrown by update
\* leaves the handler before the scroll
ScrollCandleUpdate(candle) ==
    LET throws == Len(candle) > 0 /\ UpdateThrows(chartData, candle[1])
        scrolls == Len(candle) > 0 /\ ~throws /\ shouldAutoScroll
    IN  /\ variant = "scroll"
        /\ ~removed
        /\ chartData' = OnCandleUpdate(chartData, candle)
        /\ chartCalls' = (IF Len(candle) > 0 THEN {"update"} ELSE {})
                            \cup (IF scrolls THEN {"timeScale", "scrollToPosition"} ELSE {})
        /\ atEnd' = IF scrolls THEN TRUE ELSE atEnd
        /\ ev' = Event("candle_update", candle, candle, <<>>,
                       IF throws THEN "uncaught" ELSE "none")
        /\ UNCHANGED <<variant, templateVars, dashVars, calcVars, tickLog,
                       shouldAutoScroll, lastScrollTime, dateNow, timers, removed,
                       dataProperty, tradeVars, accountVars, registryVars>>

\* handleResize
HandleResize ==
    /\ variant = "scroll"
    /\ ~removed
    /\ chartCalls' = {"applyOptions"}
    /\ ev' = Event("resize", <<>>, <<>>, <<>>, "none")
    /\ UNCHANGED <<variant, chartData, templateVars, dashVars, calcVars, tickLog,
                   shouldAutoScroll, lastScrollTime, dateNow, timers, removed, atEnd,
                   dataProperty, tradeVars, accountVars, registryVars>>

\* the cleanup of the effect: the listeners go, the chart is removed, the
\* socket disconnects; the timers stay
Cleanup ==
    /\ variant = "scroll"
    /\ ~removed
    /\ removed' = TRUE
    /\ chartCalls' = {"timeScale", "unsubscribeVisibleTimeRangeChange", "remove"}
    /\ ev' = Event("unmount", <<>>, <<>>, <<>>, "none")
    /\ UNCHANGED <<variant, chartData, templateVars, dashVars, calcVars, tickLog,
                   shouldAutoScroll, lastScrollTime, dateNow, timers, atEnd,
                   dataProperty, tradeVars, accountVars, registryVars>>

\* the candles the server sends
ScrollCandle(t) == Candle(t, Num(1), Num(2), Num(1), Num(2))

ScrollInit ==
    /\ variant = "scroll"
    /\ ev = NoEvent
    /\ chartData = <<>>
    /\ currentCandle = <<>>
    /\ lastPrice = <<>>
    /\ DashIdle
    /\ CalcIdle
    /\ AppIdle
    /\ ScrollIdle
    /\ dataProperty \in {"undefined", "function"}
    /\ tickLog = {}

ScrollNext ==
    \/ \E end \in BOOLEAN : HandleScroll(end)
    \/ \E due \in timers : TimerFires(due)
    \/ ClockTick
    \/ \E list \in {<<>>, <<ScrollCandle(60)>>} : ScrollCandles(list)
    \/ \E candle \in {<<>>, <<ScrollCandle(60)>>, <<ScrollCandle(120)>>} :
          ScrollCandleUpdate(candle)
    \/ HandleResize
    \/ Cleanup

SpecScroll == ScrollInit /\ [][ScrollNext]_vars

----------------------------------------------------------------------------
(* Claims about the candle store *)

\* the spec's retention cap ("e.g. 1000"), at the scale of the model
RetentionCap == 2

HistoryKinds == {"updateCandles", "candles"}

BarKinds == {"tick", "updateCandle", "candle_update"}

\* the event of this step handed a bar older than the last stored one
StaleBar(data, e) ==
    /\ e.kind \in BarKinds
    /\ Len(e.update) > 0
    /\ Len(data) > 0
    /\ e.update[1].time < Last(data).time

RECURSIVE SortedSeq(_)
SortedSeq(S) ==
    IF S = {} THEN <<>>
    ELSE LET m == CHOOSE x \in S : \A y \in S : x <= y
         IN  <<m>> \o SortedSeq(S \ {m})

\* a list de-duplicated by time (last occurrence wins), sorted ascending by
\* time and cut to the cap newest candles
ReplaceAllRef(list, cap) ==
    LET times == SortedSeq({list[i].time : i \in 1..Len(list)})
        lastAt(t) == CHOOSE i \in 1..Len(list) :
                        /\ list[i].time = t
                        /\ \A j \in (i + 1)..Len(list) : list[j].time # t
        sorted == [k \in 1..Len(times) |-> list[lastAt(times[k])]]
    IN  IF Len(sorted) <= cap THEN sorted
        ELSE SubSeq(sorted, Len(sorted) - cap + 1, Len(sorted))

WellFormed(c) == ~IsMalformed(c)

\* C1: in every reachable state the candles held by the chart series have
\* strictly increasing times (so no two share a time)
C1_TimesStrictlyIncreasing == StrictlyAscending(chartData)

\* C2: a bar update or tick older than the last stored candle is a no-op: it
\* leaves the series and the tick aggregator's current candle unchanged and
\* no exception leaves the handler
C2_StaleUpdateIsNoOp ==
    [][StaleBar(chartData, ev') =>
          /\ chartData' = chartData
          /\ currentCandle' = currentCandle
          /\ ev'.raised # "uncaught"]_vars

\* the bar a bar-update event stands for: the candle handed to the chart; a
\* tick stands for the one-minute bucket of its epoch closing at its quote
C3_TimeOf(e) ==
    IF e.kind = "tick" THEN (e.input[1].epoch \div 60) * 60
    ELSE IF e.kind = "candle_update" THEN e.input[1].time
    ELSE e.update[1].time

C3_CloseOf(e) ==
    IF e.kind = "tick" THEN e.input[1].quote
    ELSE IF e.kind = "candle_update" THEN e.input[1].close
    ELSE e.update[1].close

\* C3: a bar update on an empty series or with a time newer than the last
\* stored one appends exactly one element, the update; one with the time of
\* the last stored element replaces that element and keeps the length; all
\* earlier elements stay as they were
C3_AppendOrReplace ==
    [][(ev'.kind \in BarKinds /\ Len(ev'.input) > 0) =>
          LET t == C3_TimeOf(ev')
              c == C3_CloseOf(ev')
          IN  /\ (Len(chartData) = 0 \/ t > Last(chartData).time) =>
                    /\ Len(chartData') = Len(chartData) + 1
                    /\ Front(chartData') = chartData
                    /\ Last(chartData').time = t
                    /\ Last(chartData').close = c
                    /\ ev'.kind # "tick" => Last(chartData') = ev'.update[1]
              /\ (Len(chartData) > 0 /\ t = Last(chartData).time) =>
                    /\ Len(chartData') = Len(chartData)
                    /\ Front(chartData') = Front(chartData)
                    /\ Last(chartData').time = t
                    /\ Last(chartData').close = c
                    /\ ev'.kind # "tick" => Last(chartData') = ev'.update[1]]_vars

\* a tick was merged into the last bar of a series of at least two bars
C3_Witness ==
    /\ ev.kind = "tick"
    /\ ev.raised = "none"
    /\ Len(chartData) >= 2
    /\ Last(chartData).close # Last(chartData).open

\* C4: the series never holds more candles than the retention cap
C4_RetentionCap == Len(chartData) <= RetentionCap

\* C5: after a history event the chart holds the event's list de-duplicated
\* by time (last occurrence wins), sorted ascending and cut to the cap
C5_HistoryCanonical ==
    (ev.kind \in HistoryKinds /\ Len(ev.setData) > 0) =>
        chartData = ReplaceAllRef(ev.setData[1], RetentionCap)

\* C6: after a history event the chart holds exactly the well-formed candles
\* of the batch: every candle with a NaN field is dropped, the others kept
C6_MalformedDropped ==
    (ev.kind = "updateCandles" /\ Len(ev.input) > 0) =>
        /\ Len(ev.setData) > 0
        /\ chartData = SelectSeq(ev.setData[1], WellFormed)

----------------------------------------------------------------------------
(* Claims about the indicators *)

\* the sum of f[a..b]
RECURSIVE SumRange(_, _, _)
SumRange(f, a, b) == IF a > b THEN Num(0) ELSE NumAdd(f[a], SumRange(f, a + 1, b))

\* the simple moving average of the closes: one point per candle index
\* period - 1 .. length - 1 (0-based), at the time of that candle, the mean
\* of the period closes ending there
RefSMA(candleData, period) ==
    LET closes == [k \in 1..Len(candleData) |-> ParseFloat(candleData[k].close)]
    IN  [k \in 1..(Len(candleData) - period + 1) |->
            Point(candleData[k + period - 1].time,
                  NumDiv(SumRange(closes, k, k + period - 1), Num(period)))]

\* what an enabled indicator shows when it is recomputed from the current
\* candles: nothing while the candles are too few
FreshSma == IF Len(candles) >= SMAPeriod THEN Computed[candles].sma[variant] ELSE <<>>

FreshRsi == IF Len(candles) >= RSIPeriod + 1 THEN Computed[candles].rsi[variant] ELSE <<>>

\* C7: after every event each enabled indicator's series is the indicator
\* recomputed from the current candles, and empty when they are too few
C7_IndicatorsFresh ==
    /\ show.sma => series.sma = FreshSma
    /\ show.rsi => series.rsi = FreshRsi

\* C8: the SMA series shown is empty exactly when there are fewer than
\* period candles; otherwise it has length - period + 1 points, the first
\* at the candle of index period - 1
C8_SmaWarmUp ==
    show.sma =>
        /\ (Len(series.sma) = 0) <=> (Len(candles) < SMAPeriod)
        /\ Len(candles) >= SMAPeriod =>
              /\ Len(series.sma) = Len(candles) - SMAPeriod + 1
              /\ series.sma[1].time = candles[SMAPeriod].time

\* C9: both SMA blocks return, for every index i from period - 1 on, a point
\* with the time of candle i and the mean of the closes i - period + 1 .. i
C9_SmaIsWindowMean ==
    calcOut.fn \in {"SMA20_slice", "SMA20_map"} =>
        calcOut.result = RefSMA(calcIn.data, SMAPeriod)

\* an SMA block ran on more than period candles with distinct closes
C9_Witness ==
    /\ calcOut.fn = "SMA20_map"
    /\ Len(calcOut.result) >= 3
    /\ calcOut.result[1].value # calcOut.result[2].value
    /\ ~IsNaN(calcOut.result[1].value)

\* C10: calculateEMA returns at index period - 1 the mean of the first
\* period closes and then (close - ema) * k + ema with k = 2 / (period + 1);
\* period 3 on the closes 1, 2, 3, 10 gives 2 and 6
C10_EmaRecurrence ==
    (calcOut.fn = "calculateEMA" /\ Len(calcIn.data) >= calcIn.period) =>
        LET data == calcIn.data
            period == calcIn.period
            out == calcOut.result
            k == Norm(2, period + 1)
            closes == [j \in 1..Len(data) |-> data[j].close]
        IN  /\ Len(out) >= 1
            /\ out[1] = Point(data[period].time,
                              NumDiv(SumRange(closes, 1, period), Num(period)))
            /\ \A j \in 2..Len(out) :
                  /\ period + j - 1 <= Len(data)
                  /\ out[j].time = data[period + j - 1].time
                  /\ out[j].value =
                        NumAdd(NumMul(NumSub(data[period + j - 1].close, out[j - 1].value), k),
                               out[j - 1].value)
            /\ (period = 3 /\ closes = <<Num(1), Num(2), Num(3), Num(10)>>) =>
                  /\ Len(out) = 2
                  /\ out[1].value = Num(2)
                  /\ out[2].value = Num(6)

\* calculateEMA ran with period 3 on the closes 1, 2, 3, 10
C10_Witness ==
    /\ calcOut.fn = "calculateEMA"
    /\ calcIn.period = 3
    /\ [j \in 1..Len(calcIn.data) |-> calcIn.data[j].close] = <<Num(1), Num(2), Num(3), Num(10)>>
    /\ Len(calcOut.result) = 2

\* C11: calculateEMA returns no point when there are fewer than period
\* candles, and otherwise length - period + 1 points whose times are those
\* of the candles period - 1 .. length - 1, in ascending order
C11_EmaLengthAndTimes ==
    calcOut.fn = "calculateEMA" =>
        LET data == calcIn.data
            period == calcIn.period
            out == calcOut.result
        IN  IF Len(data) < period THEN out = <<>>
            ELSE /\ Len(out) = Len(data) - period + 1
                 /\ \A j \in 1..Len(out) : out[j].time = data[period + j - 1].time
                 /\ \A j \in 1..(Len(out) - 1) : out[j].time < out[j + 1].time

\* calculateEMA ran with period 2 on four candles
C11_Witness ==
    /\ calcOut.fn = "calculateEMA"
    /\ calcIn.period = 2
    /\ Len(calcIn.data) = 4
    /\ Len(calcOut.result) = 3

----------------------------------------------------------------------------
(* Claims about the dashboards' indicators *)

\* C12: the RSI series shown is empty exactly when there are fewer than
\* period + 1 candles; otherwise it has length - period points, the first at
\* the candle of index period, each with the time of its candle
C12_RsiWarmUp ==
    show.rsi =>
        /\ (Len(series.rsi) = 0) <=> (Len(candles) < RSIPeriod + 1)
        /\ Len(candles) >= RSIPeriod + 1 =>
              /\ Len(series.rsi) = Len(candles) - RSIPeriod
              /\ \A k \in 1..Len(series.rsi) :
                    series.rsi[k].time = candles[RSIPeriod + k].time

IndicatorSeries(ind) == IF ind = "vol" THEN "volume" ELSE ind

\* C20: a toggle leaves the candles and the chart's candle data as they
\* were, does not hand the candle data to the chart again, and hands new
\* data to no indicator whose switch it did not change
C20_ToggleFrame ==
    [][ev'.kind = "toggle" =>
          /\ candles' = candles
          /\ chartData' = chartData
          /\ Len(ev'.setData) = 0
          /\ \A ind \in {"vol", "sma", "rsi"} :
                show'[ind] = show[ind] =>
                    IndicatorSeries(ind) \notin SetDataCalls(candles', show', variant')]_vars

\* C21: no step computes an indicator that is switched off, and the step
\* that switches SMA or RSI back on leaves the series recomputed from the
\* current candles
C21_ToggleOnIsFresh ==
    [][/\ ~show'.sma => "sma" \notin SetDataCalls(candles', show', variant')
       /\ ~show'.rsi => "rsi" \notin SetDataCalls(candles', show', variant')
       /\ (ev'.kind = "toggle" /\ ~show.sma /\ show'.sma) => series'.sma = FreshSma'
       /\ (ev'.kind = "toggle" /\ ~show.rsi /\ show'.rsi) => series'.rsi = FreshRsi']_vars

\* C22: after a history event the chart holds exactly the candles of the
\* event, also when the event's list is empty or shorter than the one
\* before, and the enabled indicators are recomputed from them
C22_HistoryReplaces ==
    ev.kind = "candles_update" =>
        /\ chartData = Computed[ev.input].candle
        /\ show.sma => series.sma = FreshSma
        /\ show.rsi => series.rsi = FreshRsi

----------------------------------------------------------------------------
(* Claims about RSI *)

RsiFns == {"RSI14_wilder", "RSI14_real", "calculateRSI"}

\* the closes the function that ran last worked on, and its period
RunCloses ==
    IF calcIn.kind = "calc" THEN [k \in 1..Len(calcIn.data) |-> calcIn.data[k].close]
    ELSE [k \in 1..Len(calcIn.data) |-> ParseFloat(calcIn.data[k].close)]

RunPeriod == IF calcIn.kind = "calc" THEN calcIn.period ELSE RSIPeriod

FiniteCloses(closes) == \A k \in 1..Len(closes) : ~IsNaN(closes[k])

\* gain_i = max(close_i - close_(i-1), 0) and loss_i = max(close_(i-1) -
\* close_i, 0) for a candle index i >= 1 (from 0)
GainAt(closes, i) == MathMax(NumSub(closes[i + 1], closes[i]), Num(0))

LossAt(closes, i) == MathMax(NumSub(closes[i], closes[i + 1]), Num(0))

\* 100 - 100 / (1 + avgGain / avgLoss)
RsiOf(avgGain, avgLoss) ==
    NumSub(Num(100), NumDiv(Num(100), NumAdd(Num(1), NumDiv(avgGain, avgLoss))))

StrictlyIncreasing(closes) ==
    \A k \in 1..(Len(closes) - 1) : NumLt(closes[k], closes[k + 1])

StrictlyDecreasing(closes) ==
    \A k \in 1..(Len(closes) - 1) : NumGt(closes[k], closes[k + 1])

\* C13: the first RSI point comes from a seed average gain and a seed
\* average loss that are the simple means of the gains and of the losses at
\* the indices 1..period
C13_SeedIsSimpleMean ==
    (calcOut.fn \in RsiFns /\ Len(calcOut.result) >= 1 /\ FiniteCloses(RunCloses)) =>
        LET closes == RunCloses
            period == RunPeriod
            gains == [i \in 1..period |-> GainAt(closes, i)]
            losses == [i \in 1..period |-> LossAt(closes, i)]
            seedGain == NumDiv(SumRange(gains, 1, period), Num(period))
            seedLoss == NumDiv(SumRange(losses, 1, period), Num(period))
        IN  /\ calcOut.averages[1] = [avgGain |-> seedGain, avgLoss |-> seedLoss]
            /\ seedLoss # Num(0) => calcOut.result[1].value = RsiOf(seedGain, seedLoss)

\* C14: at every index after the seed the averages are the Wilder smoothing
\* (previous average * (period - 1) + gain or loss) / period of the previous
\* averages, and the point is 100 - 100 / (1 + avgGain / avgLoss) of them
C14_WilderSmoothing ==
    (calcOut.fn \in RsiFns /\ FiniteCloses(RunCloses)) =>
        LET closes == RunCloses
            period == RunPeriod
            avg == calcOut.averages
        IN  \A j \in 2..Len(calcOut.result) :
                LET i == period + j - 1
                IN  /\ avg[j].avgGain =
                           NumDiv(NumAdd(NumMul(avg[j - 1].avgGain, Num(period - 1)),
                                         GainAt(closes, i)), Num(period))
                    /\ avg[j].avgLoss =
                           NumDiv(NumAdd(NumMul(avg[j - 1].avgLoss, Num(period - 1)),
                                         LossAt(closes, i)), Num(period))
                    /\ avg[j].avgLoss # Num(0) =>
                           calcOut.result[j].value = RsiOf(avg[j].avgGain, avg[j].avgLoss)

\* C15: a point computed with an average loss of 0 is exactly 100
C15_ZeroLossIsHundred ==
    calcOut.fn \in RsiFns =>
        \A j \in 1..Len(calcOut.result) :
            NumEq(calcOut.averages[j].avgLoss, Num(0)) =>
                calcOut.result[j].value = Num(100)

\* C16: on strictly increasing closes every RSI point is 100, on strictly
\* decreasing closes every RSI point is 0
C16_MonotoneExtremes ==
    (calcOut.fn \in RsiFns /\ Len(RunCloses) >= RunPeriod + 1) =>
        /\ StrictlyIncreasing(RunCloses) =>
              \A j \in 1..Len(calcOut.result) : calcOut.result[j].value = Num(100)
        /\ StrictlyDecreasing(RunCloses) =>
              \A j \in 1..Len(calcOut.result) : calcOut.result[j].value = Num(0)

\* C17: on finite closes every RSI value of every implementation is a
\* number in [0, 100]
C17_RsiInRange ==
    (calcOut.fn \in RsiFns /\ FiniteCloses(RunCloses)) =>
        \A j \in 1..Len(calcOut.result) :
            /\ NumGe(calcOut.result[j].value, Num(0))
            /\ NumGe(Num(100), calcOut.result[j].value)

\* an RSI implementation returned several points, one strictly inside the
\* range
C17_Witness ==
    /\ calcOut.fn = "calculateRSI"
    /\ Len(calcOut.result) >= 2
    /\ NumGt(calcOut.result[1].value, Num(0))
    /\ NumLt(calcOut.result[1].value, Num(50))
    /\ NumGt(calcOut.result[2].value, Num(50))

\* C18: on 25 candles closing at 10, 11, ..., 34 SMA(20) has 6 points, the
\* last 24.5; EMA(20) starts at the candle of index 19 with 19.5; every
\* RSI(14) point is 100
C18_EndToEnd ==
    calcOut.fn = "endToEnd" =>
        LET r == calcOut.result
        IN  /\ Len(r.sma_v8) = 6 /\ Last(r.sma_v8).value = Norm(49, 2)
            /\ Len(r.sma_v7) = 6 /\ Last(r.sma_v7).value = Norm(49, 2)
            /\ Len(r.ema) >= 1
            /\ r.ema[1] = Point(calcIn.data[20].time, Norm(39, 2))
            /\ \A rsi \in {r.rsi_v8, r.rsi_v7, r.rsi_calc} :
                  /\ Len(rsi) = 11
                  /\ \A j \in 1..Len(rsi) : rsi[j].value = Num(100)

----------------------------------------------------------------------------
(* Claims about the tick aggregator *)

MaxOf(S) == CHOOSE x \in S : \A y \in S : NumGe(x, y)

MinOf(S) == CHOOSE x \in S : \A y \in S : NumGe(y, x)

\* C25: after any ticks the current candle has low <= open <= high and
\* low <= close <= high, its time is the one-minute bucket of the latest
\* tick, its open the price of the first tick of that bucket, its close the
\* price of the latest tick, its high and low the largest and smallest
\* price seen in the bucket
C25_TickCandle ==
    currentCandle # <<>> =>
        LET c == currentCandle[1]
            tick == ev.input[1]
            r == CHOOSE x \in tickLog : x.time = c.time
        IN  /\ NumGe(c.open, c.low) /\ NumGe(c.high, c.open)
            /\ NumGe(c.close, c.low) /\ NumGe(c.high, c.close)
            /\ c.time % 60 = 0
            /\ c.time = (tick.epoch \div 60) * 60
            /\ c.close = tick.quote
            /\ c.open = r.first
            /\ c.high = MaxOf(r.prices)
            /\ c.low = MinOf(r.prices)

----------------------------------------------------------------------------
(* Claims about the trades list *)

\* C24: a trade_result that is no object or has no id leaves the trades as
\* they are, and none throws; any other changes nothing but the profit,
\* success and exit_reason of the trades with its id: the length, the order
\* and every other trade stay
C24_TradeResult ==
    [][ev'.kind = "trade_result" =>
          LET result == ev'.input[1]
          IN  /\ ev'.raised = "none"
              /\ Len(trades') = Len(trades)
              /\ IgnoredResult(result) => trades' = trades
              /\ \A k \in 1..Len(trades) :
                    IF trades[k].id = result.id
                    THEN /\ trades'[k].id = trades[k].id
                         /\ trades'[k].amount = trades[k].amount
                    ELSE trades'[k] = trades[k]]_vars

\* a result closed one of several trades
C24_Witness ==
    /\ ev.kind = "trade_result"
    /\ Len(trades) >= 3
    /\ \E k \in 1..Len(trades) : trades[k].profit.t = "number"
    /\ \E k \in 1..Len(trades) : trades[k].profit.t = "undefined"

\* C28: the list holds at most 50 trades, newest first, and they are the
\* most recently placed valid trades; a trade_placed without trade or id
\* leaves the list as it is
C28_TradesList ==
    [][/\ Len(trades') <= 50
       /\ Len(trades') = (IF Len(placed') < 50 THEN Len(placed') ELSE 50)
       /\ \A k \in 1..Len(trades') :
             /\ trades'[k].id = placed'[k].id
             /\ trades'[k].amount = placed'[k].amount
       /\ (ev'.kind = "trade_placed" /\ (ev'.input = <<>> \/ ev'.input[1].id = 0)) =>
             trades' = trades]_vars

\* more than 50 valid trades were placed
C28_Witness ==
    /\ ev.kind = "trade_placed"
    /\ Len(placed) > 50
    /\ Len(trades) = 50
    /\ trades[1].id = Len(placed)

----------------------------------------------------------------------------
(* Claims about positions and performance *)

\* C26: wins + losses = trades; when trades > 0 the stored winRate is
\* 100 * wins / trades; right after account_reset profit, trades, wins,
\* losses and winRate are all 0
C26_Performance ==
    /\ performance.wins + performance.losses = performance.trades
    /\ performance.trades > 0 =>
          performance.winRate = NumDiv(Num(100 * performance.wins), Num(performance.trades))
    /\ ev.kind = "account_reset" =>
          /\ performance.profit = 0
          /\ performance.trades = 0
          /\ performance.wins = 0
          /\ performance.losses = 0
          /\ performance.winRate = Num(0)

\* the ids of a list of positions, in order
PositionIds(positions) == [k \in 1..Len(positions) |-> positions[k].id]

\* C27: trade_closed for the id X leaves no position with the id X, leaves
\* the other positions as they were and in order, and appends the result,
\* and nothing else, to tradeHistory; as long as every trade_executed came
\* with an id no earlier event carried, no two open positions share an id
\* and no open position has a closed id
C27_PositionLifecycle ==
    [][/\ ev'.kind = "trade_closed" =>
            LET X == ev'.input[1].id
            IN  /\ \A k \in 1..Len(openPositions') : openPositions'[k].id # X
                /\ openPositions' = SelectSeq(openPositions, LAMBDA p : p.id # X)
                /\ tradeHistory' = tradeHistory \o ev'.input
       /\ allFresh' =>
            /\ \A j, k \in 1..Len(openPositions') :
                  openPositions'[j].id = openPositions'[k].id => j = k
            /\ \A k \in 1..Len(openPositions') : openPositions'[k].id \notin closedIds']_vars

\* of three positions with fresh ids the middle one was closed
C27_Witness ==
    /\ ev.kind = "trade_closed"
    /\ allFresh
    /\ ev.input[1].id = 2
    /\ PositionIds(openPositions) = <<1, 3>>
    /\ closedIds = {2}
    /\ Len(tradeHistory) = 1

----------------------------------------------------------------------------
(* Claims about the registry of indicators *)

\* C30: each name is registered at most once; addIndicator with a
\* registered name adds no series and leaves the registry as it is;
\* addIndicator with a type IndicatorSelector does not offer returns null and
\* leaves the registry as it is; addIndicator with a new name and any type
\* IndicatorSelector offers (rsi, macd, ema, sma) returns a series and
\* registers the name
C30_Registry ==
    [][/\ \A j, k \in 1..Len(indicators') :
             indicators'[j].name = indicators'[k].name => j = k
       /\ ev'.kind = "addIndicator" =>
             LET name == ev'.input[1]
                 type == ev'.input[2]
             IN  IF HasIndicator(indicators, name)
                 THEN lineSeries' = lineSeries /\ indicators' = indicators
                 ELSE IF type \in {"rsi", "macd", "ema", "sma"}
                 THEN /\ returned'.value = "series"
                      /\ HasIndicator(indicators', name)
                      /\ Len(indicators') = Len(indicators) + 1
                 ELSE /\ returned'.value = "null"
                      /\ indicators' = indicators]_vars

----------------------------------------------------------------------------
(* Claims about auto-scroll and cleanup *)

\* C23: a change of the visible range disables auto-scroll at once, and
\* while it is disabled candle_update does not scroll the chart; only a
\* timer that runs at least 2 seconds after the latest scroll and finds
\* the view at the end enables it again; and a timer that runs at least
\* 2 seconds after the latest scroll, with the view at the end of the
\* data, does enable it
C23_AutoScroll ==
    [][/\ ev'.kind = "scroll" => ~shouldAutoScroll'
       /\ (ev'.kind = "candle_update" /\ ~shouldAutoScroll) =>
             "scrollToPosition" \notin chartCalls'
       /\ (~shouldAutoScroll /\ shouldAutoScroll') =>
             /\ ev'.kind = "timer"
             /\ dateNow' - lastScrollTime >= 2000
             /\ atEnd
       /\ (/\ ev'.kind = "timer"
           /\ ~removed
           /\ dateNow' - lastScrollTime >= 2000
           /\ atEnd
           /\ chartData # <<>>) => shouldAutoScroll']_vars

\* C29: once the cleanup has removed the chart, no timer, socket handler or
\* resize handler calls a method of the chart or of its series
C29_NoCallAfterCleanup ==
    (removed /\ ev.kind # "unmount") => chartCalls = {}

====
